---- MODULE Spec2Model ----
(***************************************************************************)
(* Khatabook: the browser storage facade window.DB (Firestore with a       *)
(* localStorage fallback) and its change notifier; and the Express server  *)
(* of server.js (MySQL with the file orders.json as its fallback).         *)
(*                                                                         *)
(* A record is modelled with the keys the facade reads or writes; a key    *)
(* that a JavaScript object does not carry holds the value Absent (for a   *)
(* string key), NoId (for id) or NoTime (for a time key).  rid is a ghost  *)
(* key, invisible to the program: the serial of the record's creation.     *)
(***************************************************************************)
EXTENDS Integers, Sequences, FiniteSets, TLC

\* ---------------------------------------------------------------- bounds
\* saveOrder calls in one behaviour
MaxSaves == 2
\* subscribeOrders calls in one behaviour
MaxSubs == 1
\* size of the pool generateId() draws fresh ids from
IdPool == 12
\* requests the server receives in one behaviour
MaxReqs == 2

\* ------------------------------------------------------------ value space
Absent == "absent"
NoId == 0
NoTime == 0
\* FieldValue.serverTimestamp(): an object, not a time; new Date(it) is NaN
ServerTs == -1
\* the clock of the first call of the session; records of an earlier
\* session carry the time OldTime
OldTime == 1
StartClock == 2
\* a time an update can carry, later than every clock value of a behaviour
LaterTime == 9
\* an id chosen by the caller (a pre-generated id), and an id that no
\* record ever carries
PreId == 50
NoSuchId == 99
\* keys assigned by the document store start above the generateId() pool
KeyBase == 100

NewRec(rid, id, name, pay, created, updated) ==
    [rid |-> rid, id |-> id, customerName |-> name, paymentStatus |-> pay,
     createdAt |-> created, updatedAt |-> updated]

\* the orders a caller passes to saveOrder: the least one, one with an id
\* and a status, one with a creation time
Orders ==
    { NewRec(0, NoId, "A", Absent, NoTime, NoTime),
      NewRec(0, PreId, "A", "Paid", NoTime, NoTime),
      NewRec(0, NoId, "A", Absent, OldTime, NoTime) }

\* the least order: a customerName and nothing else
LeastOrders == { NewRec(0, NoId, "A", Absent, NoTime, NoTime) }

\* the updates a caller passes to updateOrder, with at least one key:
\* paymentStatus is on the allow-list, createdAt is not
Updates ==
    { [paymentStatus |-> "Paid", createdAt |-> NoTime],
      [paymentStatus |-> "Paid", createdAt |-> LaterTime] }

\* the least update: one key of the allow-list
LeastUpdates == { [paymentStatus |-> "Paid", createdAt |-> NoTime] }

\* what localStorage can hold when the page loads: nothing, or a record an
\* earlier session left, stored without an id (the case that
\* loadFromLocalStorage's "Ensure each order has an id" is for)
LegacyRec == NewRec(1, NoId, "A", "Pending", OldTime, NoTime)
InitialStores == { <<>>, <<LegacyRec>> }

\* -------------------------------------------------- the server's values
\* an order as server.js builds it (orderDetails, orderDate, orderAmount,
\* deliveryStatus, paymentMode and items are left out)
SrvRec(id, name, pay, created) ==
    [id |-> id, customerName |-> name, paymentStatus |-> pay, createdAt |-> created]

NoOrder == SrvRec(NoId, Absent, Absent, NoTime)

\* req.body of POST /orders: with a customerName, and without one
Payloads ==
    { [customerName |-> "A", paymentStatus |-> Absent, createdAt |-> NoTime],
      [customerName |-> Absent, paymentStatus |-> Absent, createdAt |-> NoTime] }

\* req.body of PATCH /orders/:id: a key of the allow-list, a key outside
\* it, both
Bodies ==
    { [paymentStatus |-> "Paid", createdAt |-> NoTime],
      [paymentStatus |-> Absent, createdAt |-> LaterTime],
      [paymentStatus |-> "Paid", createdAt |-> LaterTime] }

NoBody == [paymentStatus |-> Absent, createdAt |-> NoTime]

\* orders.json: missing, a text JSON.parse rejects, or a list of orders
FileOf(state, orders) == [state |-> state, orders |-> orders]

OldOrder == SrvRec(PreId, "A", "Pending", OldTime)

InitialFiles ==
    { FileOf("missing", <<>>), FileOf("undecodable", <<>>),
      FileOf("ok", <<>>), FileOf("ok", <<OldOrder>>) }

\* a request: its route, its position in the handler, what it carries and
\* what it was answered; ghosts: dbFailed (a call of server-db.js threw),
\* decodeFailed (JSON.parse threw), found (the id was in the list read),
\* wseq (the serial of its last write of the file), readAfter (the requests
\* whose write of the file was over when it read the file)
NoReq ==
    [kind |-> "none", pc |-> "idle", id |-> NoId, updates |-> NoBody,
     order |-> NoOrder, toWrite |-> <<>>, status |-> 0, sent |-> <<>>,
     dbFailed |-> FALSE, decodeFailed |-> FALSE, found |-> FALSE,
     wseq |-> 0, readAfter |-> {}]

\* ---------------------------------------------------------- pure helpers
Range(s) == { s[i] : i \in 1..Len(s) }

Min(S) == CHOOSE x \in S : \A y \in S : x <= y

RECURSIVE FreshSeq(_, _)
\* the n smallest ids of the pool outside used, in increasing order
FreshSeq(n, used) ==
    IF n = 0 THEN <<>>
    ELSE LET x == Min((1..IdPool) \ used)
         IN  <<x>> \o FreshSeq(n - 1, used \cup {x})

\* new Date(v) as a number; 0 stands for NaN's place and IsNaN tells it apart
IsNaN(t) == t = ServerTs

\* (a, b) => new Date(b.createdAt || 0) - new Date(a.createdAt || 0);
\* a NaN result is taken as +0 by Array.prototype.sort
compareCreatedAt(a, b) ==
    IF IsNaN(a.createdAt) \/ IsNaN(b.createdAt) THEN 0
    ELSE b.createdAt - a.createdAt

RECURSIVE InsertSorted(_, _)
InsertSorted(r, s) ==
    IF s = <<>> THEN <<r>>
    ELSE IF compareCreatedAt(r, Head(s)) <= 0 THEN <<r>> \o s
    ELSE <<Head(s)>> \o InsertSorted(r, Tail(s))

RECURSIVE StableSort(_)
\* a stable sort: equal elements keep their order
StableSort(s) ==
    IF s = <<>> THEN <<>> ELSE InsertSorted(Head(s), StableSort(Tail(s)))

\* the comparator is a consistent comparator on s when no element is NaN,
\* or when every element that is not NaN has the same time
ConsistentOn(s) ==
    \/ \A i \in 1..Len(s) : ~IsNaN(s[i].createdAt)
    \/ \A i, j \in 1..Len(s) :
          (~IsNaN(s[i].createdAt) /\ ~IsNaN(s[j].createdAt))
              => s[i].createdAt = s[j].createdAt

Perms(s) ==
    { [i \in 1..Len(s) |-> s[p[i]]] :
        p \in { q \in [1..Len(s) -> 1..Len(s)] :
                  \A i, j \in 1..Len(s) : i /= j => q[i] /= q[j] } }

\* Array.prototype.sort with compareCreatedAt: the stable order when the
\* comparator is consistent, an implementation-defined order otherwise
sortByCreatedAt(s) ==
    IF ConsistentOn(s) THEN {StableSort(s)} ELSE Perms(s)

\* ------------------------------------------------------------------ state
VARIABLES
    firestore,     \* TRUE when the firestore handle is not null
    cloudEnabled,  \* the facade's flag: TRUE is Primary-Active
    isCloud,       \* window.DB.isCloud
    cloud,         \* the documents of the 'orders' collection: [key, data]
    local,         \* the decoded value of localStorage['khataBookOrders']
    clock,         \* Date.now() and the server's time
    subs,          \* the subscriptions made by subscribeOrders
    last,          \* ghost: the last call of a facade operation
    useMySql,      \* server.js: TRUE when the relational driver is the active one
    dataFile,      \* server.js: the content of orders.json
    table,         \* server-db.js: the rows of the table orders
    reqs           \* server.js: the requests received, each with its position

\* the page's state and the server's state
pageVars == <<firestore, cloudEnabled, isCloud, cloud, local, clock, subs, last>>
serverVars == <<useMySql, dataFile, table, reqs>>

vars == <<firestore, cloudEnabled, isCloud, cloud, local, clock, subs, last,
          useMySql, dataFile, table, reqs>>

NoRec == NewRec(0, NoId, Absent, Absent, NoTime, NoTime)
None == [has |-> FALSE, val |-> <<>>]
Some(v) == [has |-> TRUE, val |-> v]

NoSub ==
    [state |-> "none", handle |-> "none", listener |-> "none",
     polling |-> FALSE, stopPolling |-> FALSE, lastSerialized |-> None,
     called |-> FALSE, atPoll |-> None, tick |-> "none", tickCalled |-> FALSE,
     tickSet |-> FALSE, tickSorted |-> FALSE, afterClose |-> FALSE, unsubs |-> 0,
     loops |-> 0]

NoCall ==
    [op |-> "none", cloudAtCall |-> FALSE, attempted |-> FALSE, failed |-> FALSE,
     served |-> "none", input |-> NoRec, ret |-> <<>>, prevOp |-> "none",
     prevInput |-> NoRec, prevRet |-> <<>>]

\* ids that a fresh generateId() result differs from: every id stored or
\* handed out and still held somewhere
UsedIds ==
    { r.id : r \in Range(local) }
        \cup { r.id : r \in Range(last.ret) }
        \cup { r.id : r \in Range(last.prevRet) }
        \cup UNION { { r.id : r \in Range(subs[s].lastSerialized.val) } : s \in DOMAIN subs }

generateId(used) == Min((1..IdPool) \ used)

RECURSIVE AssignIds(_, _)
AssignIds(s, fresh) ==
    IF s = <<>> THEN <<>>
    ELSE IF Head(s).id = NoId
         THEN <<[Head(s) EXCEPT !.id = Head(fresh)]>> \o AssignIds(Tail(s), Tail(fresh))
         ELSE <<Head(s)>> \o AssignIds(Tail(s), fresh)

\* parsed.map((o) => ({ id: o.id || generateId(), ...o }))
loadFromLocalStorage ==
    AssignIds(local,
              FreshSeq(Cardinality({ i \in 1..Len(local) : local[i].id = NoId }), UsedIds))

\* the ids generateId() must avoid after a load in the same handler
UsedAfterLoad == UsedIds \cup { r.id : r \in Range(loadFromLocalStorage) }

\* the number of keys the JSON text of the list carries
Keys(r) ==
    Cardinality({ k \in {"id", "customerName", "paymentStatus", "createdAt", "updatedAt"} :
        \/ k = "id" /\ r.id /= NoId
        \/ k = "customerName" /\ r.customerName /= Absent
        \/ k = "paymentStatus" /\ r.paymentStatus /= Absent
        \/ k = "createdAt" /\ r.createdAt /= NoTime
        \/ k = "updatedAt" /\ r.updatedAt /= NoTime })

RECURSIVE Size(_)
Size(s) == IF s = <<>> THEN 0 ELSE Keys(Head(s)) + Size(Tail(s))

\* localStorage.setItem can throw (the quota) only when the text grows
WriteOutcomes(orders) == IF Size(orders) > Size(local) THEN {TRUE, FALSE} ELSE {TRUE}

\* try { localStorage.setItem(...) } catch (e) { /* no-op */ }
saveToLocalStorage(orders, ok) == IF ok THEN orders ELSE local

\* { ...rec, ...updates }
ApplyUpdates(rec, u) ==
    [rec EXCEPT !.paymentStatus = IF u.paymentStatus /= Absent THEN u.paymentStatus ELSE @,
                !.createdAt = IF u.createdAt /= NoTime THEN u.createdAt ELSE @]

RECURSIVE DocsByCreatedAtDesc(_)
\* .orderBy('createdAt', 'desc'): the server's times are distinct
DocsByCreatedAtDesc(docs) ==
    IF docs = {} THEN <<>>
    ELSE LET d == CHOOSE x \in docs : \A y \in docs : y.data.createdAt <= x.data.createdAt
         IN  <<d>> \o DocsByCreatedAtDesc(docs \ {d})

\* snapshot.docs.map((d) => ({ id: d.id, ...d.data() }))
SnapshotOrders ==
    LET docs == DocsByCreatedAtDesc(cloud)
    IN  [i \in 1..Len(docs) |->
            IF docs[i].data.id /= NoId THEN docs[i].data
            ELSE [docs[i].data EXCEPT !.id = docs[i].key]]

\* the ids a caller can name: those it has seen, and one that does not exist
IdArgs ==
    ({ r.id : r \in Range(local) } \ {NoId})
        \cup { d.key : d \in cloud }
        \cup ({ d.data.id : d \in cloud } \ {NoId})
        \cup {NoSuchId}

\* JSON.stringify(list): the ghost key is no part of the text
Json(s) == [i \in 1..Len(s) |-> [s[i] EXCEPT !.rid = 0]]

\* a >= b on two dates, as JavaScript compares them: false when one is NaN
NotOlder(a, b) == ~IsNaN(a) /\ ~IsNaN(b) /\ a >= b

\* newest first on createdAt
IsSortedDesc(s) ==
    \A i \in 1..(Len(s) - 1) : NotOlder(s[i].createdAt, s[i + 1].createdAt)

\* the list holds the stored records, each once
SameRecords(s, stored) ==
    /\ Len(s) = Len(stored)
    /\ { r.rid : r \in Range(s) } = { r.rid : r \in Range(stored) }

\* ------------------------------------------------------------------- Init
\* the page, once the script has run
PageInit ==
    /\ firestore \in BOOLEAN
    /\ cloudEnabled = firestore
    /\ isCloud = cloudEnabled
    /\ cloud = {}
    /\ local \in InitialStores
    /\ clock = StartClock
    /\ subs = [s \in 1..MaxSubs |-> NoSub]
    /\ last = NoCall

\* no page is open
PageIdle ==
    /\ firestore = FALSE
    /\ cloudEnabled = FALSE
    /\ isCloud = FALSE
    /\ cloud = {}
    /\ local = <<>>
    /\ clock = StartClock
    /\ subs = [s \in 1..MaxSubs |-> NoSub]
    /\ last = NoCall

\* the server, once start() has run: useMySql tells whether initDatabase()
\* succeeded
ServerInit ==
    /\ useMySql \in BOOLEAN
    /\ dataFile \in InitialFiles
    /\ table = {}
    /\ reqs = [r \in 1..MaxReqs |-> NoReq]

\* the server is not running
ServerIdle ==
    /\ useMySql = FALSE
    /\ dataFile = FileOf("missing", <<>>)
    /\ table = {}
    /\ reqs = [r \in 1..MaxReqs |-> NoReq]

Init == PageInit /\ ServerIdle

InitServer == PageIdle /\ ServerInit

\* ---------------------------------------------------------------- guards
\* if (firestore)
saveOrderTriesCloud == firestore
\* if (firestore && cloudEnabled)
getOrdersTriesCloud == firestore /\ cloudEnabled
updateOrderTriesCloud == firestore /\ cloudEnabled
deleteOrderTriesCloud == firestore /\ cloudEnabled
clearAllTriesCloud == firestore /\ cloudEnabled
subscribeOrdersTriesCloud == firestore /\ cloudEnabled

\* a catch block that leaves window.DB.isCloud as it was
catchFallbackKeepsIsCloud(tried, failed) ==
    IF tried /\ failed
    THEN cloudEnabled' = FALSE /\ UNCHANGED isCloud
    ELSE UNCHANGED <<cloudEnabled, isCloud>>

\* a facade that takes a call the document store served as its recovery
catchFallbackRecovers(tried, failed) ==
    IF tried /\ failed
    THEN cloudEnabled' = FALSE /\ isCloud' = FALSE
    ELSE IF tried
    THEN cloudEnabled' = TRUE /\ isCloud' = TRUE
    ELSE UNCHANGED <<cloudEnabled, isCloud>>

\* the catch blocks: cloudEnabled = false; if (window.DB) window.DB.isCloud = false;
\* window.DB is set before any operation can be called
catchFallback(tried, failed) ==
    IF tried /\ failed
    THEN cloudEnabled' = FALSE /\ isCloud' = FALSE
    ELSE UNCHANGED <<cloudEnabled, isCloud>>

Call(op, tried, failed, served) ==
    [NoCall EXCEPT !.op = op, !.cloudAtCall = cloudEnabled, !.attempted = tried,
                   !.failed = tried /\ failed, !.served = served]

\* --------------------------------------------------------------- saveOrder
saveOrder(order, fail, ok) ==
    \* createdBy and updatedBy, set only when a user is signed in, are left out
    LET tried == saveOrderTriesCloud
        key == KeyBase + clock
        doc == [key |-> key,
                data |-> [order EXCEPT !.rid = clock, !.createdAt = clock,
                                       !.updatedAt = clock]]
        \* orderToSave carries the sentinels once the try block has run
        orderToSave == IF tried
                       THEN [order EXCEPT !.createdAt = ServerTs, !.updatedAt = ServerTs]
                       ELSE order
        orders == loadFromLocalStorage
        id == IF orderToSave.id /= NoId THEN orderToSave.id
              ELSE generateId(UsedAfterLoad)
        withMeta == [orderToSave EXCEPT !.rid = clock, !.id = id,
                                        !.createdAt = IF @ /= NoTime THEN @ ELSE clock]
        unshifted == <<withMeta>> \o orders
    IN  /\ clock < StartClock + MaxSaves
        /\ tried \/ ~fail
        /\ clock' = clock + 1
        /\ catchFallback(tried, fail)
        /\ UNCHANGED <<firestore, subs, serverVars>>
        /\ IF tried /\ ~fail
           THEN /\ ok
                /\ cloud' = cloud \cup {doc}
                /\ local' = local
                \* return { id: docRef.id, ...order }
                /\ last' = [Call("saveOrder", tried, fail, "cloud") EXCEPT
                              !.input = order,
                              !.ret = <<[order EXCEPT !.rid = clock,
                                           !.id = IF order.id /= NoId THEN order.id
                                                  ELSE key]>>]
           ELSE /\ ok \in WriteOutcomes(unshifted)
                /\ cloud' = cloud
                /\ local' = saveToLocalStorage(unshifted, ok)
                /\ last' = [Call("saveOrder", tried, fail, "local") EXCEPT
                              !.input = order, !.ret = <<withMeta>>]

\* --------------------------------------------------------------- getOrders
getOrders(fail) ==
    LET tried == getOrdersTriesCloud
        prev(c) == [c EXCEPT !.prevOp = last.op,
                             !.prevInput = IF last.op = "saveOrder" THEN last.input ELSE NoRec,
                             !.prevRet = IF last.op = "saveOrder" THEN last.ret ELSE <<>>]
    IN  /\ tried \/ ~fail
        /\ catchFallback(tried, fail)
        /\ UNCHANGED <<firestore, cloud, local, clock, subs, serverVars>>
        /\ IF tried /\ ~fail
           THEN last' = prev([Call("getOrders", tried, fail, "cloud") EXCEPT
                                 !.ret = SnapshotOrders])
           ELSE \E sorted \in sortByCreatedAt(loadFromLocalStorage) :
                   last' = prev([Call("getOrders", tried, fail, "local") EXCEPT
                                    !.ret = sorted])

\* ------------------------------------------------------------- updateOrder
updateOrder(id, updates, fail, ok) ==
    LET tried == updateOrderTriesCloud
        \* doc(id).update(payload) rejects when the document does not exist
        failed == fail \/ ~(\E d \in cloud : d.key = id)
        orders == loadFromLocalStorage
        found == { i \in 1..Len(orders) : orders[i].id = id }
        idx == Min(found)
        merged == [orders EXCEPT ![idx] = ApplyUpdates(orders[idx], updates)]
    IN  /\ tried \/ ~fail
        /\ catchFallback(tried, failed)
        /\ UNCHANGED <<firestore, clock, subs, serverVars>>
        /\ IF tried /\ ~failed
           THEN /\ ok
                /\ cloud' = { IF d.key = id
                              THEN [d EXCEPT !.data = [ApplyUpdates(d.data, updates)
                                                         EXCEPT !.updatedAt = clock]]
                              ELSE d : d \in cloud }
                /\ local' = local
                /\ last' = Call("updateOrder", tried, failed, "cloud")
           ELSE /\ cloud' = cloud
                /\ last' = Call("updateOrder", tried, failed, "local")
                /\ IF found /= {}
                   THEN /\ ok \in WriteOutcomes(merged)
                        /\ local' = saveToLocalStorage(merged, ok)
                   ELSE /\ ok
                        /\ local' = local

\* ------------------------------------------------------------- deleteOrder
deleteOrder(id, fail, ok) ==
    LET tried == deleteOrderTriesCloud
        orders == loadFromLocalStorage
        next == SelectSeq(orders, LAMBDA o : o.id /= id)
    IN  /\ tried \/ ~fail
        /\ catchFallback(tried, fail)
        /\ UNCHANGED <<firestore, clock, subs, serverVars>>
        /\ IF tried /\ ~fail
           THEN /\ ok
                /\ cloud' = { d \in cloud : d.key /= id }
                /\ local' = local
                /\ last' = Call("deleteOrder", tried, fail, "cloud")
           ELSE /\ ok \in WriteOutcomes(next)
                /\ cloud' = cloud
                /\ local' = saveToLocalStorage(next, ok)
                /\ last' = Call("deleteOrder", tried, fail, "local")

\* ---------------------------------------------------------------- clearAll
clearAll(fail) ==
    LET tried == clearAllTriesCloud
    IN  /\ tried \/ ~fail
        /\ catchFallback(tried, fail)
        /\ UNCHANGED <<firestore, clock, subs, serverVars>>
        /\ IF tried /\ ~fail
           THEN /\ cloud' = {}
                /\ local' = local
                /\ last' = Call("clearAll", tried, fail, "cloud")
           ELSE /\ cloud' = cloud
                /\ local' = saveToLocalStorage(<<>>, TRUE)
                /\ last' = Call("clearAll", tried, fail, "local")

\* --------------------------------------------------------- subscribeOrders
\* startPolling(): let lastSerialized = null; setInterval(..., 2000)
\* ghost: loops, the intervals set for the subscription (2 stands for more
\* than one)
startPolling(sub) ==
    [sub EXCEPT !.polling = TRUE, !.lastSerialized = None, !.atPoll = None,
                !.tick = "none", !.tickCalled = FALSE, !.tickSet = FALSE,
                !.tickSorted = FALSE, !.loops = IF @ < 2 THEN @ + 1 ELSE @]

\* callback(orders); ghosts: called, and afterClose, a call after the handle ran
Deliver(sub, orders) ==
    [sub EXCEPT !.called = TRUE,
                !.afterClose = @ \/ sub.state = "closed"]

subscribeOrders(s, throws) ==
    LET tried == subscribeOrdersTriesCloud
        opened == [NoSub EXCEPT !.state = "active"]
    IN  /\ subs[s].state = "none"
        /\ \A t \in 1..(s - 1) : subs[t].state /= "none"
        /\ tried \/ ~throws
        /\ catchFallback(tried, throws)
        /\ UNCHANGED <<firestore, cloud, local, clock, serverVars>>
        /\ IF tried /\ ~throws
           THEN /\ subs' = [subs EXCEPT ![s] = [opened EXCEPT !.handle = "native",
                                                              !.listener = "attached"]]
                /\ last' = Call("subscribeOrders", tried, throws, "cloud")
           ELSE /\ subs' = [subs EXCEPT ![s] = startPolling([opened EXCEPT !.handle = "poll"])]
                /\ last' = Call("subscribeOrders", tried, throws, "local")

\* the listener's next callback: (snapshot) => callback(snapshot.docs.map(...))
onSnapshotNext(s) ==
    /\ subs[s].listener = "attached"
    /\ subs' = [subs EXCEPT ![s] = Deliver(subs[s], SnapshotOrders)]
    /\ UNCHANGED <<firestore, cloudEnabled, isCloud, cloud, local, clock, last, serverVars>>

\* an error callback that sets an interval at every report
onSnapshotErrorRestarts(s) ==
    /\ subs[s].listener \in {"attached", "errored"}
    /\ cloudEnabled' = FALSE
    /\ isCloud' = FALSE
    /\ subs' = [subs EXCEPT ![s] =
                  [startPolling(subs[s]) EXCEPT !.listener = "errored",
                                                !.stopPolling = TRUE]]
    /\ UNCHANGED <<firestore, cloud, local, clock, last, serverVars>>

\* the listener's error callback, at a first report and at a repeated one;
\* the document store calls nothing on a detached listener
onSnapshotError(s) ==
    /\ subs[s].listener \in {"attached", "errored"}
    /\ cloudEnabled' = FALSE
    /\ isCloud' = FALSE
    /\ subs' = [subs EXCEPT ![s] =
                  IF ~subs[s].stopPolling
                  THEN [startPolling(subs[s]) EXCEPT !.listener = "errored",
                                                     !.stopPolling = TRUE]
                  ELSE [subs[s] EXCEPT !.listener = "errored"]]
    /\ UNCHANGED <<firestore, cloud, local, clock, last, serverVars>>

\* the interval's callback
pollTick(s) ==
    LET sub == subs[s]
        nowOrders == loadFromLocalStorage
        serialized == Json(nowOrders)
        differs == ~sub.lastSerialized.has \/ sub.lastSerialized.val /= serialized
        \* ghost: what this tick found against what the tick before it found
        ticked == [sub EXCEPT !.atPoll = Some(Json(local)),
                              !.tick = IF ~sub.atPoll.has THEN "first"
                                       ELSE IF sub.atPoll.val = Json(local) THEN "same"
                                       ELSE "changed",
                              !.tickCalled = differs,
                              !.tickSet = FALSE, !.tickSorted = FALSE]
    IN  /\ sub.polling
        /\ UNCHANGED <<firestore, cloudEnabled, isCloud, cloud, local, clock, last, serverVars>>
        /\ IF differs
           THEN \E sorted \in sortByCreatedAt(nowOrders) :
                   subs' = [subs EXCEPT ![s] =
                              Deliver([ticked EXCEPT
                                         !.lastSerialized = Some(serialized),
                                         \* ghost: what the callback was given
                                         !.tickSet = SameRecords(sorted, local),
                                         !.tickSorted = IsSortedDesc(sorted)],
                                      sorted)]
           ELSE subs' = [subs EXCEPT ![s] = ticked]

\* a native handle that detaches the listener and forgets the interval
unsubscribeHandleLeavesInterval(sub) ==
    IF sub.handle = "native"
    THEN [sub EXCEPT !.listener = IF @ = "attached" THEN "detached" ELSE @]
    ELSE [sub EXCEPT !.polling = FALSE]

\* the handle subscribeOrders returned:
\*   native: () => { try { unsubscribe && unsubscribe(); } catch (e) {}
\*                   if (stopPolling) stopPolling(); }
\*   poll:   () => clearInterval(intervalId)
unsubscribeHandle(sub) ==
    IF sub.handle = "native"
    THEN [sub EXCEPT !.listener = IF @ = "attached" THEN "detached" ELSE @,
                     !.polling = IF sub.stopPolling THEN FALSE ELSE @]
    ELSE [sub EXCEPT !.polling = FALSE]

unsubscribe(s) ==
    /\ subs[s].state \in {"active", "closed"}
    /\ subs' = [subs EXCEPT ![s] = [unsubscribeHandle(subs[s]) EXCEPT
                                      !.state = "closed",
                                      !.unsubs = IF @ < 2 THEN @ + 1 ELSE @]]
    /\ UNCHANGED <<firestore, cloudEnabled, isCloud, cloud, local, clock, last, serverVars>>

\* ------------------------------------------------------------- the server
\* A handler of server.js yields at each await: the receipt of a request,
\* each call of server-db.js, each read and each write of orders.json is a
\* step; fs.readFile and fs.writeFile each act on the whole file at once.

\* new Date().toISOString(): later at each request received
srvNow == StartClock + Cardinality({ r \in 1..MaxReqs : reqs[r].pc /= "idle" })

\* generateId() of server.js: the request's own serial
serverGenerateId(r) == r

\* the ids a client can put in the path: those stored, one that is not,
\* and a blank one
PathIds ==
    { o.id : o \in Range(dataFile.orders) } \cup { o.id : o \in table }
        \cup {NoSuchId, NoId}

\* Object.keys(updates).length > 0, updates holding the allow-list's keys
Recognized(body) == body.paymentStatus /= Absent

\* { ...orders[idx], ...updates }, updates holding the allow-list's keys
applyAllowed(rec, body) == [rec EXCEPT !.paymentStatus = body.paymentStatus]

Answer(q, status) == [q EXCEPT !.pc = "done", !.status = status]

NextWseq ==
    1 + CHOOSE m \in 0..(2 * MaxReqs) :
            /\ \A r \in 1..MaxReqs : reqs[r].wseq <= m
            /\ \E r \in 1..MaxReqs : reqs[r].wseq = m

Received(r) ==
    /\ reqs[r].pc = "idle"
    /\ \A t \in 1..(r - 1) : reqs[t].pc /= "idle"

\* app.get('/orders'), to its first await
GET_orders(r) ==
    /\ Received(r)
    /\ reqs' = [reqs EXCEPT ![r] = [NoReq EXCEPT !.kind = "GET",
                   !.pc = IF useMySql THEN "db" ELSE "read"]]
    /\ UNCHANGED <<pageVars, useMySql, dataFile, table>>

\* app.post('/orders'), to its first await
POST_orders(r, payload) ==
    LET order == SrvRec(serverGenerateId(r), payload.customerName,
                        IF payload.paymentStatus /= Absent
                        THEN payload.paymentStatus ELSE "Pending",
                        IF payload.createdAt /= NoTime
                        THEN payload.createdAt ELSE srvNow)
        q == [NoReq EXCEPT !.kind = "POST"]
    IN  /\ Received(r)
        /\ reqs' = [reqs EXCEPT ![r] =
                      IF payload.customerName = Absent THEN Answer(q, 400)
                      ELSE [q EXCEPT !.order = order,
                                     !.pc = IF useMySql THEN "db" ELSE "read"]]
        /\ UNCHANGED <<pageVars, useMySql, dataFile, table>>

\* app.patch('/orders/:id'), to its first await
PATCH_orders_id(r, id, body) ==
    LET q == [NoReq EXCEPT !.kind = "PATCH", !.id = id, !.updates = body]
    IN  /\ Received(r)
        /\ reqs' = [reqs EXCEPT ![r] =
                      IF id = NoId THEN Answer(q, 400)
                      ELSE IF ~Recognized(body) THEN Answer(q, 400)
                      ELSE [q EXCEPT !.pc = IF useMySql THEN "db" ELSE "read"]]
        /\ UNCHANGED <<pageVars, useMySql, dataFile, table>>

\* await db.getOrders(): the rows, newest first; a throw is answered 500
db_getOrders(r, fail) ==
    /\ reqs[r].pc = "db"
    /\ reqs[r].kind = "GET"
    /\ reqs' = [reqs EXCEPT ![r] =
                  IF fail THEN [Answer(@, 500) EXCEPT !.dbFailed = TRUE]
                  ELSE [Answer(@, 200) EXCEPT
                          !.sent = LET docs == DocsByCreatedAtDesc(
                                                  { [key |-> o.id, data |-> o] : o \in table })
                                   IN  [i \in 1..Len(docs) |-> docs[i].data]]]
    /\ UNCHANGED <<pageVars, useMySql, dataFile, table>>

\* await db.insertOrder(order)
db_insertOrder(r, fail) ==
    /\ reqs[r].pc = "db"
    /\ reqs[r].kind = "POST"
    /\ IF fail
       THEN /\ reqs' = [reqs EXCEPT ![r] = [Answer(@, 500) EXCEPT !.dbFailed = TRUE]]
            /\ table' = table
       ELSE /\ reqs' = [reqs EXCEPT ![r] = Answer(@, 201)]
            /\ table' = table \cup {reqs[r].order}
    /\ UNCHANGED <<pageVars, useMySql, dataFile>>

\* await db.updateOrder(id, updates): UPDATE orders SET ... WHERE id = :id
db_updateOrder(r, fail) ==
    /\ reqs[r].pc = "db"
    /\ reqs[r].kind = "PATCH"
    /\ IF fail
       THEN /\ reqs' = [reqs EXCEPT ![r] = [Answer(@, 500) EXCEPT !.dbFailed = TRUE]]
            /\ table' = table
       ELSE /\ reqs' = [reqs EXCEPT ![r] = Answer(@, 200)]
            /\ table' = { IF o.id = reqs[r].id THEN applyAllowed(o, reqs[r].updates)
                          ELSE o : o \in table }
    /\ UNCHANGED <<pageVars, useMySql, dataFile>>

\* what a handler does with the list readOrdersFromFile() returned, to its
\* next await or to its answer
afterRead(q, orders) ==
    LET hits == { i \in 1..Len(orders) : orders[i].id = q.id }
        idx == Min(hits)
    IN  CASE q.kind = "GET" ->
                 [Answer(q, 200) EXCEPT !.sent = StableSort(orders)]
          [] q.kind = "POST" ->
                 [q EXCEPT !.pc = "write", !.toWrite = <<q.order>> \o orders]
          [] q.kind = "PATCH" ->
                 IF hits = {} THEN Answer(q, 404)
                 ELSE [q EXCEPT !.pc = "write", !.found = TRUE,
                                !.toWrite = [orders EXCEPT
                                    ![idx] = applyAllowed(orders[idx], q.updates)]]

\* readOrdersFromFile(): fs.readFile and JSON.parse; ENOENT leads to the
\* write of '[]', any other error is thrown and answered 500
readOrdersFromFile(r) ==
    LET q == [reqs[r] EXCEPT
                !.readAfter = { p \in 1..MaxReqs :
                                  reqs[p].pc = "done" /\ reqs[p].wseq > 0 }]
    IN  /\ reqs[r].pc = "read"
        /\ reqs' = [reqs EXCEPT ![r] =
                      CASE dataFile.state = "ok" -> afterRead(q, dataFile.orders)
                        [] dataFile.state = "missing" -> [q EXCEPT !.pc = "create"]
                        [] dataFile.state = "undecodable" ->
                               [Answer(q, 500) EXCEPT !.decodeFailed = TRUE]]
        /\ UNCHANGED <<pageVars, useMySql, dataFile, table>>

\* readOrdersFromFile() after ENOENT: await fs.writeFile(DATA_FILE, '[]'); return []
createOrdersFile(r) ==
    /\ reqs[r].pc = "create"
    /\ dataFile' = FileOf("ok", <<>>)
    /\ reqs' = [reqs EXCEPT ![r] = afterRead([@ EXCEPT !.wseq = NextWseq], <<>>)]
    /\ UNCHANGED <<pageVars, useMySql, table>>

\* a write that puts back the orders other requests stored since the read
writeOrdersToFileMerging(r) ==
    LET kept == SelectSeq(dataFile.orders,
                          LAMBDA o : \A i \in 1..Len(reqs[r].toWrite) :
                                        reqs[r].toWrite[i].id /= o.id)
    IN  /\ reqs[r].pc = "write"
        /\ dataFile' = FileOf("ok", reqs[r].toWrite \o kept)
        /\ reqs' = [reqs EXCEPT ![r] =
                      [Answer(@, IF @.kind = "POST" THEN 201 ELSE 200) EXCEPT
                         !.wseq = NextWseq]]
        /\ UNCHANGED <<pageVars, useMySql, table>>

\* writeOrdersToFile(orders) and the answer that follows it
writeOrdersToFile(r) ==
    /\ reqs[r].pc = "write"
    /\ dataFile' = FileOf("ok", reqs[r].toWrite)
    /\ reqs' = [reqs EXCEPT ![r] =
                  [Answer(@, IF @.kind = "POST" THEN 201 ELSE 200) EXCEPT
                     !.wseq = NextWseq]]
    /\ UNCHANGED <<pageVars, useMySql, table>>

\* ------------------------------------------------------------------- Next
\* A call of an operation is one step: the operation awaits nothing but the
\* document store's answer, which the step draws (fail, throws), and its
\* localStorage part runs to its end without yielding.
\* The calls of the six operations of window.DB, and a listener's error.
Next ==
    \/ \E order \in Orders, fail, ok \in BOOLEAN : saveOrder(order, fail, ok)
    \/ \E fail \in BOOLEAN : getOrders(fail)
    \/ \E id \in IdArgs, updates \in Updates, fail, ok \in BOOLEAN :
          updateOrder(id, updates, fail, ok)
    \/ \E id \in IdArgs, fail, ok \in BOOLEAN : deleteOrder(id, fail, ok)
    \/ \E fail \in BOOLEAN : clearAll(fail)
    \/ \E s \in 1..MaxSubs, throws \in BOOLEAN : subscribeOrders(s, throws)
    \/ \E s \in 1..MaxSubs : onSnapshotError(s)

Spec == Init /\ [][Next]_vars

\* The facade's state machine: the six operations with the least inputs,
\* and a listener's error.
NextFlags ==
    \/ \E order \in LeastOrders, fail, ok \in BOOLEAN : saveOrder(order, fail, ok)
    \/ \E fail \in BOOLEAN : getOrders(fail)
    \/ \E id \in IdArgs, updates \in LeastUpdates, fail, ok \in BOOLEAN :
          updateOrder(id, updates, fail, ok)
    \/ \E id \in IdArgs, fail, ok \in BOOLEAN : deleteOrder(id, fail, ok)
    \/ \E fail \in BOOLEAN : clearAll(fail)
    \/ \E s \in 1..MaxSubs, throws \in BOOLEAN : subscribeOrders(s, throws)
    \/ \E s \in 1..MaxSubs : onSnapshotError(s)

SpecFlags == Init /\ [][NextFlags]_vars

\* The change notifier: a subscription's whole life (its listener's and its
\* interval's callbacks, its handle), while saveOrder and clearAll change
\* the stores under it.
NextNotify ==
    \/ \E s \in 1..MaxSubs, throws \in BOOLEAN : subscribeOrders(s, throws)
    \/ \E s \in 1..MaxSubs : onSnapshotNext(s)
    \/ \E s \in 1..MaxSubs : onSnapshotError(s)
    \/ \E s \in 1..MaxSubs : pollTick(s)
    \/ \E s \in 1..MaxSubs : unsubscribe(s)
    \/ \E order \in LeastOrders, fail \in BOOLEAN : saveOrder(order, fail, TRUE)
    \/ \E fail \in BOOLEAN : clearAll(fail)

SpecNotify == Init /\ [][NextNotify]_vars

\* The change notifier under the scheduling of the page: an interval that
\* is set fires again and again, and an attached listener is given the
\* collection's snapshot.
SpecNotifyLive ==
    /\ SpecNotify
    /\ \A s \in 1..MaxSubs : WF_vars(pollTick(s)) /\ WF_vars(onSnapshotNext(s))

\* The server: requests are received and their handlers run, interleaved
\* at their awaits.
NextServer ==
    \/ \E r \in 1..MaxReqs : GET_orders(r)
    \/ \E r \in 1..MaxReqs, payload \in Payloads : POST_orders(r, payload)
    \/ \E r \in 1..MaxReqs, id \in PathIds, body \in Bodies : PATCH_orders_id(r, id, body)
    \/ \E r \in 1..MaxReqs, fail \in BOOLEAN : db_getOrders(r, fail)
    \/ \E r \in 1..MaxReqs, fail \in BOOLEAN : db_insertOrder(r, fail)
    \/ \E r \in 1..MaxReqs, fail \in BOOLEAN : db_updateOrder(r, fail)
    \/ \E r \in 1..MaxReqs : readOrdersFromFile(r)
    \/ \E r \in 1..MaxReqs : createOrdersFile(r)
    \/ \E r \in 1..MaxReqs : writeOrdersToFile(r)

SpecServer == InitServer /\ [][NextServer]_vars

\* ------------------------------------------------------------- properties
IsTime(t) == t /= NoTime /\ ~IsNaN(t)

\* C1: once the facade is Fallback-Active (the flag is false when a call
\* starts), the call does not attempt the document store and is served by
\* the local driver.
C1_NoPrimaryAfterFallback ==
    (last.op /= "none" /\ ~last.cloudAtCall)
        => (~last.attempted /\ last.served = "local")

\* C2: a call whose document-store operation failed while the facade was
\* Primary-Active was completed by the local driver, and both flags are
\* false from its return on; so are they once a listener reported an error.
C2_FailureFallsBack ==
    /\ (last.failed /\ last.cloudAtCall)
          => (last.served = "local" /\ ~cloudEnabled /\ ~isCloud)
    /\ \A s \in 1..MaxSubs :
          subs[s].listener = "errored" => (~cloudEnabled /\ ~isCloud)

C2_Witness ==
    /\ last.op = "updateOrder"
    /\ last.failed
    /\ last.cloudAtCall
    /\ last.served = "local"
    /\ ~isCloud

\* C3: getOrders right after saveOrder returns exactly one record of that
\* save, carrying the input's values, an id, a creation time and the
\* default 'Pending' where the input had no paymentStatus.
C3_SaveThenGet ==
    (last.op = "getOrders" /\ last.prevOp = "saveOrder")
        => LET rid == last.prevRet[1].rid
               hits == { i \in 1..Len(last.ret) : last.ret[i].rid = rid }
           IN  /\ Cardinality(hits) = 1
               /\ \A i \in hits :
                     /\ last.ret[i].id /= NoId
                     /\ last.ret[i].customerName = last.prevInput.customerName
                     /\ last.ret[i].paymentStatus =
                           (IF last.prevInput.paymentStatus /= Absent
                            THEN last.prevInput.paymentStatus ELSE "Pending")
                     /\ IsTime(last.ret[i].createdAt)

\* C4: what getOrders returns is ordered by createdAt, newest first.
C4_SortedDesc ==
    last.op = "getOrders" => IsSortedDesc(last.ret)

\* C5: updateOrder leaves createdAt, a key outside the allow-list, as it
\* was in every stored record, in both stores.
C5_UpdateFrame ==
    [][ last'.op = "updateOrder"
          => /\ \A r \in Range(local), q \in Range(local') :
                   r.rid = q.rid => q.createdAt = r.createdAt
             /\ \A d \in cloud, e \in cloud' :
                   d.key = e.key => e.data.createdAt = d.data.createdAt ]_vars

\* C6: a stored record keeps the id and the createdAt it has, in both
\* stores, whatever step is taken.
C6_IdCreatedAtImmutable ==
    [][ /\ \A r \in Range(local), q \in Range(local') :
              r.rid = q.rid
                  => /\ q.createdAt = r.createdAt
                     /\ r.id /= NoId => q.id = r.id
        /\ \A d \in cloud, e \in cloud' :
              d.key = e.key
                  => /\ e.data.createdAt = d.data.createdAt
                     /\ e.data.id = d.data.id ]_vars

\* C7: deleteOrder with an id that no stored record carries leaves both
\* stores as they were.
C7_DeleteMissingIsNoOp ==
    [][ (\E fail, ok \in BOOLEAN : deleteOrder(NoSuchId, fail, ok))
          => (local' = local /\ cloud' = cloud) ]_vars

\* C8: getOrders right after clearAll returns the empty sequence.
C8_ClearThenGet ==
    (last.op = "getOrders" /\ last.prevOp = "clearAll") => last.ret = <<>>

\* C9: a poll that finds the stored data as the poll before it found them
\* does not call the callback; a poll that finds them changed calls it,
\* with the stored records, newest first.
C9_PollDelivery ==
    \A s \in 1..MaxSubs :
        /\ subs[s].tick = "same" => ~subs[s].tickCalled
        /\ subs[s].tick = "changed"
              => /\ subs[s].tickCalled
                 /\ subs[s].tickSet
                 /\ subs[s].tickSorted

\* C10: once the handle has been called, the subscription has no interval
\* and no attached listener, and nothing about it changes any more: no
\* callback is called, and a second call of the handle changes nothing.
C10_UnsubscribeStopsAll ==
    [][ \A s \in 1..MaxSubs :
          /\ subs'[s].state = "closed"
                => (~subs'[s].polling /\ subs'[s].listener /= "attached"
                      /\ ~subs'[s].afterClose)
          /\ subs[s].state = "closed"
                => subs'[s] = [subs[s] EXCEPT !.unsubs = subs'[s].unsubs] ]_vars

\* the listener reported an error, polling took over, and the handle was
\* then called twice
C10_Witness ==
    \E s \in 1..MaxSubs :
        /\ subs[s].state = "closed"
        /\ subs[s].handle = "native"
        /\ subs[s].listener = "errored"
        /\ subs[s].stopPolling
        /\ subs[s].called
        /\ subs[s].unsubs = 2

\* C11: a listener that reported an error has moved the facade to
\* Fallback-Active and set exactly one interval for its subscription, at
\* the first report and at none after it; the interval runs while the
\* subscription is open, and its first poll hands the callback the records
\* of the local store.
C11_ErrorStartsOnePoll ==
    \A s \in 1..MaxSubs :
        /\ subs[s].loops <= 1
        /\ subs[s].listener = "errored"
              => /\ ~cloudEnabled
                 /\ ~isCloud
                 /\ subs[s].loops = 1
                 /\ subs[s].state = "active" => subs[s].polling
                 /\ subs[s].tick = "first" => (subs[s].tickCalled /\ subs[s].tickSet)

\* the listener reported an error and the interval set for it has handed
\* the callback the stored records
C11_Witness ==
    \E s \in 1..MaxSubs :
        /\ subs[s].handle = "native"
        /\ subs[s].listener = "errored"
        /\ subs[s].state = "active"
        /\ subs[s].polling
        /\ subs[s].loops = 1
        /\ subs[s].tick = "first"
        /\ subs[s].tickCalled
        /\ local /= <<>>

\* C12: a saveOrder or an updateOrder that the local driver served and that
\* returned to its caller has changed the local store (saveOrder adds a
\* record, updateOrder sets the status of a record that did not have it).
C12_WriteFailureSurfaced ==
    [][ /\ (/\ \E order \in Orders, fail, ok \in BOOLEAN : saveOrder(order, fail, ok)
            /\ last'.served = "local")
              => local' /= local
        /\ \A id \in IdArgs :
              (/\ \E updates \in Updates, fail, ok \in BOOLEAN :
                     updateOrder(id, updates, fail, ok)
               /\ last'.served = "local"
               /\ \E i \in 1..Len(local) :
                     local[i].id = id /\ local[i].paymentStatus /= "Paid")
                 => local' /= local ]_vars

\* C13: a PATCH is answered 400 when its id is blank or its body has no key
\* of the allow-list, 404 on the file path when no stored order has the id,
\* both leaving the stored orders as they were; otherwise it is answered 200
\* and its last step changes nothing but the allow-list's keys of the order
\* with that id.
StoredOrders(f) == IF f.state = "ok" THEN f.orders ELSE <<>>

OnlyAllowedChanged(before, after, id) ==
    /\ Len(after) = Len(before)
    /\ \A i \in 1..Len(before) :
          /\ after[i].id = before[i].id
          /\ after[i].customerName = before[i].customerName
          /\ after[i].createdAt = before[i].createdAt
          /\ before[i].id /= id => after[i] = before[i]

C13_PatchAnswers ==
    [][ \A r \in 1..MaxReqs :
          (reqs'[r].kind = "PATCH" /\ reqs[r].pc /= "done" /\ reqs'[r].pc = "done")
              => LET q == reqs'[r]
                     before == StoredOrders(dataFile)
                     after == StoredOrders(dataFile')
                 IN  IF q.id = NoId \/ ~Recognized(q.updates)
                     THEN q.status = 400 /\ after = before /\ table' = table
                     ELSE IF ~useMySql /\ ~(\E i \in 1..Len(before) : before[i].id = q.id)
                     THEN q.status = 404 /\ after = before /\ table' = table
                     ELSE /\ q.status = 200
                          /\ OnlyAllowedChanged(before, after, q.id)
                          /\ \A o \in table : o.id /= q.id => o \in table'
                          /\ \A o \in table' : \E b \in table :
                                /\ b.id = o.id
                                /\ b.customerName = o.customerName
                                /\ b.createdAt = o.createdAt ]_vars

\* C14: a request during which a call of the relational driver failed has
\* switched the server to the file driver and was answered from it, not
\* with an error.
C14_RelationalFailureFallsBack ==
    \A r \in 1..MaxReqs :
        reqs[r].dbFailed => (~useMySql /\ reqs[r].status \in {200, 201})

\* C15: the record saveOrder returns when the document store served it, and
\* every record getOrders lists from the document store, has the key the
\* document store assigned as its id.
C15_BackendKeyIsId ==
    /\ (last.op = "saveOrder" /\ last.served = "cloud")
          => last.ret[1].id = KeyBase + last.ret[1].rid
    /\ (last.op = "getOrders" /\ last.served = "cloud")
          => \A i \in 1..Len(last.ret) : last.ret[i].id = KeyBase + last.ret[i].rid

\* C16: the file holds what its last writer wrote, that is what it had read
\* with its own change: the order of a POST answered 201 is not in the file
\* when the last writer read the file before that POST had written it, so
\* two writers that both read before either wrote lose one update.
LastWriter(q) ==
    reqs[q].wseq > 0 /\ \A p \in 1..MaxReqs : reqs[p].wseq <= reqs[q].wseq

Stored201(p) ==
    /\ reqs[p].kind = "POST"
    /\ reqs[p].pc = "done"
    /\ reqs[p].status = 201
    /\ reqs[p].wseq > 0

InFile(p) ==
    \E i \in 1..Len(dataFile.orders) : dataFile.orders[i].id = reqs[p].order.id

C16_LateReaderOverwrites ==
    \A q, p \in 1..MaxReqs :
        (LastWriter(q) /\ p /= q /\ Stored201(p) /\ p \notin reqs[q].readAfter)
            => ~InFile(p)

\* two POSTs were answered 201 and the file holds the order of one of them
C16_LostUpdate ==
    \E p, q \in 1..MaxReqs :
        /\ p /= q
        /\ Stored201(p)
        /\ Stored201(q)
        /\ InFile(q)
        /\ ~InFile(p)

\* C17: a request whose read of orders.json could not be decoded is not
\* answered with an error; a GET is answered 200 with the empty list.
C17_DecodeFailureReadsEmpty ==
    \A r \in 1..MaxReqs :
        reqs[r].decodeFailed
            => /\ reqs[r].status /= 500
               /\ reqs[r].kind = "GET" => (reqs[r].status = 200 /\ reqs[r].sent = <<>>)

\* C18: while a subscription made on the document store is open, the facade
\* is Fallback-Active and the local store holds records, a poll of the local
\* store for that subscription follows (or the subscription is closed).
C18_DemotedSubscriberPolled ==
    \A s \in 1..MaxSubs :
        (/\ subs[s].state = "active"
         /\ subs[s].handle = "native"
         /\ ~cloudEnabled
         /\ local /= <<>>)
            ~> (subs[s].state = "closed" \/ subs[s].tick /= "none")

\* C19: the first poll calls the callback exactly when the local store
\* holds a record.
C19_FirstPollOnlyWithData ==
    \A s \in 1..MaxSubs :
        subs[s].tick = "first"
            => (subs[s].tickCalled <=> subs[s].atPoll.val /= <<>>)

\* C20: window.DB.isCloud equals cloudEnabled in every state, and no step
\* takes cloudEnabled from false to true.
C20_StatusMonotone ==
    /\ [](isCloud = cloudEnabled)
    /\ [][~cloudEnabled => ~cloudEnabled']_vars

\* after the facade fell back, a saveOrder was served by the document store
\* and the flags are still false
C20_Witness ==
    /\ firestore
    /\ ~cloudEnabled
    /\ ~isCloud
    /\ last.op = "saveOrder"
    /\ ~last.cloudAtCall
    /\ last.attempted
    /\ last.served = "cloud"

====
